---- MODULE Spec2Model ----
(***************************************************************************)
(* ploc: detection and reduction of indirect imports in a Python package.  *)
(*                                                                         *)
(* The model covers the module locator, the interface cache, the import    *)
(* graph resolver (analyse_import), the replacement planner                *)
(* (analyse_module_imports) and the check / fix commands.  The parser and  *)
(* the source rewriter are represented by what they return for a file:     *)
(* the imported names and the exported names of its source.                *)
(***************************************************************************)
EXTENDS Integers, Sequences, FiniteSets, TLC

VARIABLES
    fs,                   \* the files on disk: file -> [present, imports, defs, mtime]
    scan,                 \* the order in which rglob enumerates the files
    config,               \* PlocConfig.additional_packages, as a sequence of package names
    store,                \* the dbm cache of each directory: key -> stored entry
    clock,                \* time.time()
    opened,               \* the directories whose dbm cache is open
    pc,                   \* position of the process
    dirs,                 \* the directories of the command, from the one it is at
    command,              \* "check", "fix" or "none" (analyse_import called alone)
    cache_enabled,        \* "on", "off" or "rebuild"
    root,                 \* the directory get_modules_interfaces is working on
    locations,            \* get_modules_interfaces' locations, in dict order
    todo,                 \* the locations still to be iterated (there, or by fix's loop)
    yielded,              \* the (path, interface) pairs yielded so far, as a map
    interfaces,           \* analyse_module_imports' interfaces (primary root)
    all_interfaces,       \* the combined map handed to analyse_import
    first_party_packages,
    add_queue,            \* additional packages still to be handled
    atodo,                \* the <<module path, import>> pairs still to be analysed
    replacements,         \* the plan: module path -> (old import -> new import)
    files_count,
    imp,                  \* analyse_import's argument
    original_imp,         \* analyse_import's local original_imp
    m_path,               \* analyse_import's _module, by its path
    m_name,               \* analyse_import's _name
    visited,              \* the (_module, _name) pairs analyse_import's loop has looked up
    result,               \* what analyse_import did: "pending", "none", "repl" or an error
    repl,                 \* the replacement analyse_import returned
    error,                \* the error that ended the run, "" when none
    exit_status,          \* the process exit status, -1 while running
    history,              \* what came before this process: "fixed" when the last thing
                          \* to touch the files was a fix command that rewrote them
    previous              \* the outcome of the last process, when nothing has touched
                          \* the files or the stores since it started: [dir, status, plan]

vars == <<fs, scan, config, store, clock, opened, pc, dirs, command, cache_enabled, root,
          locations, todo, yielded, interfaces, all_interfaces, first_party_packages,
          add_queue, atodo, replacements, files_count, imp, original_imp, m_path,
          m_name, visited, result, repl, error, exit_status, history, previous>>

env_vars == <<fs, scan, config, store, clock, opened, history, previous>>
plan_vars == <<dirs, command, cache_enabled, root, locations, todo, yielded, interfaces,
               first_party_packages, add_queue, atodo, replacements, files_count,
               error, exit_status>>
ai_vars == <<imp, original_imp, m_path, m_name, visited, result, repl>>

\* The clock stops the model when it reaches MaxTime.
MaxTime == 3

-----------------------------------------------------------------------------
(* type_defs.py *)

\* is_subpath taking a module for a sub-module of itself.
is_subpath_same_length(small, big) ==
    /\ Len(big) = Len(small)
    /\ SubSeq(big, 1, Len(small)) = small

is_subpath(small, big) ==
    /\ Len(big) = Len(small) + 1
    /\ SubSeq(big, 1, Len(small)) = small

NameImport(module, export_name, import_name) ==
    [module |-> module, export_name |-> export_name, import_name |-> import_name]

ModuleLocation(path, file, is_init) ==
    [path |-> path, file |-> file, is_init |-> is_init]

ModuleInterface(location, imported_names, exported_names, submodules) ==
    [location |-> location, imported_names |-> imported_names,
     exported_names |-> exported_names, submodules |-> submodules]

\* A dict with no key.
EmptyDict == << >>

\* dict.values() as a set.
Values(d) == {d[k] : k \in DOMAIN d}

\* {**a, **b}
Merge(a, b) == [k \in DOMAIN a \cup DOMAIN b |-> IF k \in DOMAIN b THEN b[k] ELSE a[k]]

\* A sequence without repetition as the set of its elements.
Range(s) == {s[i] : i \in DOMAIN s}

Last(s) == s[Len(s)]

-----------------------------------------------------------------------------
(* The files.  A file is a directory and a path relative to it, the suffix *)
(* dropped; its content is what the parser extracts from it.               *)

File(dir, rel) == [dir |-> dir, rel |-> rel]

PrimaryDir == "R"
ExtraDir == "E"

Content(imports, defs, mtime) ==
    [present |-> TRUE, imports |-> imports, defs |-> defs, mtime |-> mtime]

Absent == [present |-> FALSE, imports |-> EmptyDict, defs |-> {}, mtime |-> 0]

\* root.rglob("*.py"), in the enumeration order of the file system
rglob(dir) == SelectSeq(scan, LAMBDA f : f.dir = dir /\ fs[f].present)

-----------------------------------------------------------------------------
(* analysis.py: get_modules_locations *)

module_path(root_module_path, rel) ==
    LET full == root_module_path \o rel
    IN  IF Last(rel) = "__init__" THEN SubSeq(full, 1, Len(full) - 1) ELSE full

location_of(file, root_module_path) ==
    ModuleLocation(module_path(root_module_path, file.rel), file, Last(file.rel) = "__init__")

\* The locations found, in insertion order (the duplicate check aside).
get_modules_locations(dir, root_module_path) ==
    LET files == rglob(dir)
    IN  [i \in 1..Len(files) |-> location_of(files[i], root_module_path)]

\* "Two files map to the same module path"
DuplicateModulePath(locs) ==
    \E i, j \in DOMAIN locs : i # j /\ locs[i].path = locs[j].path

Paths(locs) == {locs[i].path : i \in DOMAIN locs}

-----------------------------------------------------------------------------
(* parsing.py: extract_module_imports_exports, by its result *)

extract_imported_names(file) == fs[file].imports
extract_exported_names(file) == fs[file].defs

-----------------------------------------------------------------------------
(* caching.py *)

RECURSIVE Join(_)
Join(path) ==
    IF Len(path) = 0 THEN ""
    ELSE IF Len(path) = 1 THEN path[1]
    ELSE path[1] \o "." \o Join(Tail(path))

_key(path) == Join(path)

CachedModuleInterface(imported_names, exported_names, submodules, timestamp) ==
    [valid |-> TRUE, imported_names |-> imported_names, exported_names |-> exported_names,
     submodules |-> submodules, timestamp |-> timestamp]

\* A stored value that CachedModuleInterface.model_validate_json rejects.
InvalidEntry ==
    [valid |-> FALSE, imported_names |-> EmptyDict, exported_names |-> {},
     submodules |-> {}, timestamp |-> 0]

\* dbm_lookup taking an entry written at the very time of the file for stale.
dbm_lookup_strict(db, loc) ==
    IF _key(loc.path) \notin DOMAIN db THEN "absent"
    ELSE IF ~db[_key(loc.path)].valid THEN "invalid"
    ELSE IF db[_key(loc.path)].timestamp > fs[loc.file].mtime THEN "valid"
    ELSE "stale"

\* What _DbmCache.get_interface finds for a location: "absent" (KeyError),
\* "invalid" (ValidationError), "valid" (timestamp >= st_mtime) or "stale".
dbm_lookup(db, loc) ==
    IF _key(loc.path) \notin DOMAIN db THEN "absent"
    ELSE IF ~db[_key(loc.path)].valid THEN "invalid"
    ELSE IF db[_key(loc.path)].timestamp >= fs[loc.file].mtime THEN "valid"
    ELSE "stale"

\* _DbmCache.get_interface / _NoCacheCache.get_interface: is an interface returned
get_interface_hit(mode, db, loc) ==
    mode # "off" /\ dbm_lookup(db, loc) = "valid"

\* the interface _DbmCache.get_interface returns on a hit
get_interface(db, loc) ==
    ModuleInterface(loc, db[_key(loc.path)].imported_names,
                    db[_key(loc.path)].exported_names, db[_key(loc.path)].submodules)

\* the store after get_interface: an invalid entry is deleted
db_after_get(mode, db, loc) ==
    IF mode # "off" /\ dbm_lookup(db, loc) = "invalid"
    THEN [k \in DOMAIN db \ {_key(loc.path)} |-> db[k]]
    ELSE db

\* the store after set_interface
set_interface(mode, db, interface, now) ==
    IF mode = "off" THEN db
    ELSE Merge(db, _key(interface.location.path) :>
                   CachedModuleInterface(interface.imported_names, interface.exported_names,
                                         interface.submodules, now))

-----------------------------------------------------------------------------
(* analysis.py: get_modules_interfaces *)

\* line 50
submodules_of(loc, locs) ==
    IF loc.is_init THEN {Last(p) : p \in {q \in Paths(locs) : is_subpath(loc.path, q)}}
    ELSE {}

\* line 51
shadowed_attrs(loc, locs) == submodules_of(loc, locs) \cap extract_exported_names(loc.file)

\* lines 53-55
kept_imported_names(loc, locs) ==
    LET imported == extract_imported_names(loc.file)
        keep == {n \in DOMAIN imported : imported[n].export_name \notin submodules_of(loc, locs)}
    IN  IF loc.is_init THEN [n \in keep |-> imported[n]] ELSE imported

\* lines 46-64: the interface built on a cache miss
extracted_interface(loc, locs) ==
    ModuleInterface(loc, kept_imported_names(loc, locs),
                    extract_exported_names(loc.file), submodules_of(loc, locs))

-----------------------------------------------------------------------------
(* analysis.py: analyse_import.  It reads the map all_interfaces and the    *)
(* import imp; the loop runs one iteration per step, since nothing bounds   *)
(* the number of its iterations.                                            *)

NoImport == NameImport(<< >>, "", "")

\* unfold stopping at the first re-export instead of following the chain.
unfold_one_hop(ifs, the_imp, module, name) ==
    IF name \notin DOMAIN ifs[module].imported_names THEN "break"
    ELSE IF /\ ifs[module].location.is_init
            /\ is_subpath(the_imp.module, ifs[module].imported_names[name].module)
         THEN "return"
    ELSE "boundary"

\* unfold leaving the loop when it comes back to a (_module, _name) it has
\* already looked up.
unfold_detecting_cycles(ifs, the_imp, module, name) ==
    IF <<module, name>> \in visited THEN "break"
    ELSE IF name \notin DOMAIN ifs[module].imported_names THEN "break"
    ELSE IF /\ ifs[module].location.is_init
            /\ is_subpath(the_imp.module, ifs[module].imported_names[name].module)
         THEN "return"
    ELSE IF ifs[module].imported_names[name].module \notin DOMAIN ifs THEN "boundary"
    ELSE "hop"

\* lines 85-95, one iteration of the loop at (_module, _name):
\*   "break"    the name is not re-exported (line 87)
\*   "return"   a re-export from a sub-module in an __init__ file (line 89)
\*   "boundary" the re-export comes from a module that is not known (line 95)
\*   "hop"      the walk goes on in the module of the re-export (line 96)
unfold(ifs, the_imp, module, name) ==
    IF name \notin DOMAIN ifs[module].imported_names THEN "break"
    ELSE IF /\ ifs[module].location.is_init
            /\ is_subpath(the_imp.module, ifs[module].imported_names[name].module)
         THEN "return"
    ELSE IF ifs[module].imported_names[name].module \notin DOMAIN ifs THEN "boundary"
    ELSE "hop"

\* unresolved forgetting that the sub-modules of a package can be imported from it.
unresolved_ignoring_submodules(src_module, the_imp) ==
    the_imp.export_name \notin src_module.exported_names

\* line 105
unresolved(src_module, the_imp) ==
    /\ the_imp.export_name \notin src_module.exported_names
    /\ the_imp.export_name \notin src_module.submodules

\* after_loop raising when the chain ends in a module that is not known.
after_loop_strict(ifs, the_imp, orig) ==
    IF orig.module \notin DOMAIN ifs THEN "unknown_module"
    ELSE IF orig # the_imp THEN "repl"
    ELSE IF unresolved(ifs[the_imp.module], the_imp) THEN "unresolved"
    ELSE "none"

\* after_loop returning a replacement for an import that no module re-exports.
after_loop_eager(ifs, the_imp, orig) ==
    IF orig = the_imp /\ unresolved(ifs[the_imp.module], the_imp) THEN "unresolved"
    ELSE "repl"

\* lines 98-106: what analyse_import does once the loop is left by a break
after_loop(ifs, the_imp, orig) ==
    IF orig # the_imp THEN "repl"
    ELSE IF unresolved(ifs[the_imp.module], the_imp) THEN "unresolved"
    ELSE "none"

\* replacement taking the local name of the import it points to.
replacement_renaming(the_imp, orig) == orig

\* lines 99-103
replacement(the_imp, orig) == NameImport(orig.module, orig.export_name, the_imp.import_name)

\* lines 74-83
AiEnter ==
    /\ pc = "ai_enter"
    /\ IF imp.module \notin DOMAIN all_interfaces
       THEN /\ result' = "unknown_module"
            /\ pc' = "ai_return"
            /\ UNCHANGED <<original_imp, m_path, m_name, visited>>
       ELSE /\ original_imp' = imp
            /\ m_path' = imp.module
            /\ m_name' = imp.export_name
            /\ visited' = {}
            /\ pc' = "ai_loop"
            /\ UNCHANGED result
    /\ UNCHANGED <<imp, repl, all_interfaces>>
    /\ UNCHANGED env_vars
    /\ UNCHANGED plan_vars

\* lines 84-106: one iteration of the loop and, when it leaves the loop, the rest
AiLoop ==
    /\ pc = "ai_loop"
    /\ LET case == unfold(all_interfaces, imp, m_path, m_name)
           next_imp == all_interfaces[m_path].imported_names[m_name]
           orig == IF case = "boundary" THEN next_imp ELSE original_imp
       IN  /\ visited' = visited \cup {<<m_path, m_name>>}
           /\ CASE case = "hop" ->
                    /\ original_imp' = next_imp
                    /\ m_path' = next_imp.module
                    /\ m_name' = next_imp.export_name
                    /\ pc' = "ai_loop"
                    /\ UNCHANGED <<result, repl>>
                [] case = "return" ->
                    /\ result' = "none"
                    /\ pc' = "ai_return"
                    /\ UNCHANGED <<original_imp, m_path, m_name, repl>>
                [] OTHER ->
                    /\ original_imp' = orig
                    /\ result' = after_loop(all_interfaces, imp, orig)
                    /\ repl' = IF after_loop(all_interfaces, imp, orig) = "repl"
                               THEN replacement(imp, orig) ELSE repl
                    /\ pc' = "ai_return"
                    /\ UNCHANGED <<m_path, m_name>>
    /\ UNCHANGED <<imp, all_interfaces>>
    /\ UNCHANGED env_vars
    /\ UNCHANGED plan_vars

-----------------------------------------------------------------------------
(* analysis.py: get_modules_interfaces, the generator and its consumer *)

\* An error leaves the process: nothing runs after it.
Fail(kind) ==
    /\ pc' = "failed"
    /\ error' = kind
    /\ exit_status' = 1

\* GmiOpen opening the store in mode "rebuild" as in mode "on", nothing purged.
GmiOpen_keeping ==
    /\ pc = "gmi_open"
    /\ IF cache_enabled = "off"
       THEN UNCHANGED <<opened, store>>
       ELSE /\ opened' = opened \cup {root}
            /\ UNCHANGED store
    /\ pc' = "gmi_iter"
    /\ UNCHANGED <<fs, scan, config, clock, history, previous>>
    /\ UNCHANGED plan_vars
    /\ UNCHANGED ai_vars
    /\ UNCHANGED all_interfaces

\* line 40 and caching.py lines 96-107: the cache is acquired
GmiOpen ==
    /\ pc = "gmi_open"
    /\ IF cache_enabled = "off"
       THEN UNCHANGED <<opened, store>>
       ELSE /\ opened' = opened \cup {root}
            /\ store' = IF cache_enabled = "rebuild"
                        THEN [store EXCEPT ![root] = EmptyDict]
                        ELSE store
    /\ pc' = "gmi_iter"
    /\ UNCHANGED <<fs, scan, config, clock, history, previous>>
    /\ UNCHANGED plan_vars
    /\ UNCHANGED ai_vars
    /\ UNCHANGED all_interfaces

\* lines 41-44: the next location; the cache is asked for its interface
GmiGet ==
    /\ pc = "gmi_iter"
    /\ todo # << >>
    /\ LET loc == Head(todo)
           db == store[root]
       IN  IF get_interface_hit(cache_enabled, db, loc)
           THEN /\ yielded' = Merge(yielded, loc.path :> get_interface(db, loc))
                /\ todo' = Tail(todo)
                /\ UNCHANGED <<store, pc>>
           ELSE /\ store' = [store EXCEPT ![root] = db_after_get(cache_enabled, db, loc)]
                /\ pc' = "gmi_miss"
                /\ UNCHANGED <<yielded, todo>>
    /\ UNCHANGED <<fs, scan, config, clock, opened, history, previous>>
    /\ UNCHANGED <<dirs, command, cache_enabled, root, locations, interfaces,
                   first_party_packages, add_queue, atodo, replacements, files_count,
                   error, exit_status>>
    /\ UNCHANGED ai_vars
    /\ UNCHANGED all_interfaces

\* GmiExtract leaving the store open when the shadowed-export error is raised.
GmiExtract_leaking ==
    /\ pc = "gmi_miss"
    /\ LET loc == Head(todo)
       IN  IF shadowed_attrs(loc, locations) # {}
           THEN /\ Fail("shadowed_export")
                /\ UNCHANGED <<opened, store, yielded, todo>>
           ELSE /\ store' = [store EXCEPT ![root] =
                                set_interface(cache_enabled, store[root],
                                              extracted_interface(loc, locations), clock)]
                /\ yielded' = Merge(yielded, loc.path :> extracted_interface(loc, locations))
                /\ todo' = Tail(todo)
                /\ pc' = "gmi_iter"
                /\ UNCHANGED <<opened, error, exit_status>>
    /\ UNCHANGED <<fs, scan, config, clock, history, previous>>
    /\ UNCHANGED <<dirs, command, cache_enabled, root, locations, interfaces,
                   first_party_packages, add_queue, atodo, replacements, files_count>>
    /\ UNCHANGED ai_vars
    /\ UNCHANGED all_interfaces

\* lines 46-67: the cache had nothing; the interface is extracted and stored
GmiExtract ==
    /\ pc = "gmi_miss"
    /\ LET loc == Head(todo)
       IN  IF shadowed_attrs(loc, locations) # {}
           THEN /\ opened' = opened \ {root}
                /\ Fail("shadowed_export")
                /\ UNCHANGED <<store, yielded, todo>>
           ELSE /\ store' = [store EXCEPT ![root] =
                                set_interface(cache_enabled, store[root],
                                              extracted_interface(loc, locations), clock)]
                /\ yielded' = Merge(yielded, loc.path :> extracted_interface(loc, locations))
                /\ todo' = Tail(todo)
                /\ pc' = "gmi_iter"
                /\ UNCHANGED <<opened, error, exit_status>>
    /\ UNCHANGED <<fs, scan, config, clock, history, previous>>
    /\ UNCHANGED <<dirs, command, cache_enabled, root, locations, interfaces,
                   first_party_packages, add_queue, atodo, replacements, files_count>>
    /\ UNCHANGED ai_vars
    /\ UNCHANGED all_interfaces

\* The order of the names of a dict of imports (their order in the source).
NameOrder == <<"X", "Y", "s">>

\* interface.imported_names.values(), in order, each with the module it is in
imports_of(interface) ==
    LET names == SelectSeq(NameOrder, LAMBDA n : n \in DOMAIN interface.imported_names)
    IN  [i \in 1..Len(names) |-> <<interface.location, interface.imported_names[names[i]]>>]

\* the imports of the modules at locs, in order
RECURSIVE import_pairs(_, _)
import_pairs(locs, ifs) ==
    IF locs = << >> THEN << >>
    ELSE imports_of(ifs[Head(locs).path]) \o import_pairs(Tail(locs), ifs)

\* imports_to_analyse going through the modules of the additional packages too.
imports_to_analyse_all(primary, combined) ==
    import_pairs(get_modules_locations(Head(dirs), << >>)
                     \o (IF config = << >> THEN << >>
                         ELSE get_modules_locations(ExtraDir, <<config[1]>>)),
                 combined)

\* lines 157-158: the imports the two loops go through, those of interfaces.values(),
\* which are in the order of the locations of the primary root
imports_to_analyse(primary, combined) ==
    import_pairs(get_modules_locations(Head(dirs), << >>), primary)

\* line 130
top_level_packages(ifs) == {path[1] : path \in {q \in DOMAIN ifs : q # << >>}}

\* The generator is exhausted: the cache is released (line 40) and the caller
\* goes on, lines 122-133 for the primary root (the directory the command is
\* at), lines 146-153 for an additional package.
GmiClose ==
    /\ pc = "gmi_iter"
    /\ todo = << >>
    /\ opened' = opened \ {root}
    /\ IF root = Head(dirs)
       THEN /\ interfaces' = yielded
            /\ first_party_packages' = top_level_packages(yielded)
            /\ all_interfaces' = yielded
            /\ add_queue' = config
       ELSE /\ all_interfaces' = Merge(all_interfaces, yielded)
            /\ first_party_packages' = first_party_packages \cup {Head(add_queue)}
            /\ add_queue' = Tail(add_queue)
            /\ UNCHANGED interfaces
    /\ pc' = "additional"
    /\ UNCHANGED <<fs, scan, config, store, clock, history, previous>>
    /\ UNCHANGED <<dirs, command, cache_enabled, root, locations, todo, yielded, atodo,
                   replacements, files_count, error, exit_status>>
    /\ UNCHANGED ai_vars

-----------------------------------------------------------------------------
(* analysis.py: analyse_module_imports *)

\* lines 113-119 (and cli.py's loop reaching a directory): the modules of the
\* primary root are discovered
StartAnalysis(dir) ==
    LET locs == get_modules_locations(dir, << >>)
    IN  IF DuplicateModulePath(locs)
        THEN /\ Fail("duplicate_module_path")
             /\ UNCHANGED <<root, locations, todo, yielded, files_count>>
        ELSE /\ root' = dir
             /\ locations' = locs
             /\ todo' = locs
             /\ yielded' = EmptyDict
             /\ files_count' = Len(locs)
             /\ pc' = "gmi_open"
             /\ UNCHANGED <<error, exit_status>>

\* lines 134-145: the next additional package, or line 156 when none is left
AddNext ==
    /\ pc = "additional"
    /\ IF add_queue = << >>
       THEN /\ replacements' = EmptyDict
            /\ atodo' = imports_to_analyse(interfaces, all_interfaces)
            /\ pc' = "analyse"
            /\ UNCHANGED <<root, locations, todo, yielded, error, exit_status>>
       ELSE IF Head(add_queue) \in first_party_packages
       THEN /\ Fail("additional_package_conflict")
            /\ UNCHANGED <<root, locations, todo, yielded, replacements, atodo>>
       ELSE LET locs == get_modules_locations(ExtraDir, <<Head(add_queue)>>)
            IN  IF DuplicateModulePath(locs)
                THEN /\ Fail("duplicate_module_path")
                     /\ UNCHANGED <<root, locations, todo, yielded, replacements, atodo>>
                ELSE /\ root' = ExtraDir
                     /\ locations' = locs
                     /\ todo' = locs
                     /\ yielded' = EmptyDict
                     /\ pc' = "gmi_open"
                     /\ UNCHANGED <<replacements, atodo, error, exit_status>>
    /\ UNCHANGED env_vars
    /\ UNCHANGED <<dirs, command, cache_enabled, interfaces, first_party_packages,
                   add_queue, files_count>>
    /\ UNCHANGED ai_vars
    /\ UNCHANGED all_interfaces

\* line 159
skipped(the_imp, packages) ==
    the_imp.module = << >> \/ the_imp.module[1] \notin packages

\* lines 157-163: the loops reach the next import; analyse_import is called on
\* it unless line 159 skips it
AnalyseNext ==
    /\ pc = "analyse"
    /\ atodo # << >>
    /\ IF skipped(Head(atodo)[2], first_party_packages)
       THEN /\ atodo' = Tail(atodo)
            /\ UNCHANGED <<pc, imp, result>>
       ELSE /\ imp' = Head(atodo)[2]
            /\ result' = "pending"
            /\ pc' = "ai_enter"
            /\ UNCHANGED atodo
    /\ UNCHANGED env_vars
    /\ UNCHANGED <<dirs, command, cache_enabled, root, locations, todo, yielded, interfaces,
                   first_party_packages, add_queue, replacements, files_count, error,
                   exit_status>>
    /\ UNCHANGED <<original_imp, m_path, m_name, visited, repl>>
    /\ UNCHANGED all_interfaces

\* replacements[interface.location][imp] = repl, on a defaultdict
plan_with(plan, location, old, new) ==
    Merge(plan, location :> Merge(IF location \in DOMAIN plan THEN plan[location] ELSE EmptyDict,
                                  old :> new))

\* lines 162-172: analyse_import has returned or raised
AnalyseReturn ==
    /\ pc = "ai_return"
    /\ command # "none"
    /\ IF result \in {"unknown_module", "unresolved"}
       THEN /\ Fail(result)
            /\ UNCHANGED <<atodo, replacements>>
       ELSE /\ replacements' = IF result = "repl"
                               THEN plan_with(replacements, Head(atodo)[1], imp, repl)
                               ELSE replacements
            /\ atodo' = Tail(atodo)
            /\ pc' = "analyse"
            /\ UNCHANGED <<error, exit_status>>
    /\ UNCHANGED env_vars
    /\ UNCHANGED <<dirs, command, cache_enabled, root, locations, todo, yielded, interfaces,
                   first_party_packages, add_queue, files_count>>
    /\ UNCHANGED ai_vars
    /\ UNCHANGED all_interfaces

\* line 174: the plan and the count are returned to the command
AnalyseDone ==
    /\ pc = "analyse"
    /\ atodo = << >>
    /\ pc' = "report"
    /\ UNCHANGED env_vars
    /\ UNCHANGED plan_vars
    /\ UNCHANGED ai_vars
    /\ UNCHANGED all_interfaces

-----------------------------------------------------------------------------
(* cli.py: the check and fix commands *)

Exit(status) ==
    /\ pc' = "exited"
    /\ exit_status' = status

\* the state of a process that has not analysed anything yet
Fresh ==
    /\ interfaces' = EmptyDict
    /\ all_interfaces' = EmptyDict
    /\ first_party_packages' = {}
    /\ add_queue' = << >>
    /\ atodo' = << >>
    /\ replacements' = EmptyDict
    /\ imp' = NoImport
    /\ original_imp' = NoImport
    /\ m_path' = << >>
    /\ m_name' = ""
    /\ visited' = {}
    /\ result' = "pending"
    /\ repl' = NoImport

\* cli.py lines 53-57 / 105-109: the command starts on its first directory
Run(cmd, mode, ds) ==
    /\ pc = "idle"
    /\ command' = cmd
    /\ cache_enabled' = mode
    /\ dirs' = ds
    /\ Fresh
    /\ StartAnalysis(Head(ds))
    /\ UNCHANGED env_vars

\* replacements.items(): the locations of the plan, in insertion order
plan_locations ==
    SelectSeq(get_modules_locations(Head(dirs), << >>), LAMBDA l : l \in DOMAIN replacements)

\* cli.py lines 57-62 (check) and 109-115 (fix): the plan is reported
Report ==
    /\ pc = "report"
    /\ IF command = "check"
       THEN IF replacements # EmptyDict
            THEN /\ Exit(1)
                 /\ UNCHANGED <<dirs, root, locations, todo, yielded, files_count, error>>
            ELSE IF Tail(dirs) = << >>
            THEN /\ Exit(0)
                 /\ UNCHANGED <<dirs, root, locations, todo, yielded, files_count, error>>
            ELSE /\ dirs' = Tail(dirs)
                 /\ StartAnalysis(Head(Tail(dirs)))
       ELSE IF replacements = EmptyDict
            THEN /\ Exit(0)
                 /\ UNCHANGED <<dirs, root, locations, todo, yielded, files_count, error>>
            ELSE /\ todo' = plan_locations
                 /\ pc' = "fix"
                 /\ UNCHANGED <<dirs, root, locations, yielded, files_count, error, exit_status>>
    /\ UNCHANGED env_vars
    /\ UNCHANGED <<command, cache_enabled, interfaces, first_party_packages, add_queue, atodo,
                   replacements>>
    /\ UNCHANGED ai_vars
    /\ UNCHANGED all_interfaces

\* parsing.py lines 132-161: the imports of a file with the replacements applied
replaced_imports(imports, changes) ==
    [n \in DOMAIN imports |-> IF imports[n] \in DOMAIN changes
                              THEN changes[imports[n]] ELSE imports[n]]

\* parsing.py lines 137-138: assert_all_imports_replaced
all_imports_replaced(imports, changes) == DOMAIN changes \subseteq Values(imports)

\* cli.py lines 117-118 and parsing.py lines 210-221: one file is rewritten
FixFile ==
    /\ pc = "fix"
    /\ todo # << >>
    /\ clock < MaxTime
    /\ LET loc == Head(todo)
           changes == replacements[loc]
       IN  IF all_imports_replaced(fs[loc.file].imports, changes)
           THEN /\ fs' = [fs EXCEPT ![loc.file] =
                            Content(replaced_imports(fs[loc.file].imports, changes),
                                    fs[loc.file].defs, clock + 1)]
                /\ clock' = clock + 1
                /\ todo' = Tail(todo)
                /\ UNCHANGED <<pc, error, exit_status>>
           ELSE /\ Fail("imports_not_replaced")
                /\ UNCHANGED <<fs, clock, todo>>
    /\ UNCHANGED <<scan, config, store, opened, history, previous>>
    /\ UNCHANGED <<dirs, command, cache_enabled, root, locations, yielded, interfaces,
                   first_party_packages, add_queue, atodo, replacements, files_count>>
    /\ UNCHANGED ai_vars
    /\ UNCHANGED all_interfaces

\* cli.py lines 119-122: every file of the plan is rewritten
FixDone ==
    /\ pc = "fix"
    /\ todo = << >>
    /\ Exit(1)
    /\ UNCHANGED env_vars
    /\ UNCHANGED <<dirs, command, cache_enabled, root, locations, todo, yielded, interfaces,
                   first_party_packages, add_queue, atodo, replacements, files_count, error>>
    /\ UNCHANGED ai_vars
    /\ UNCHANGED all_interfaces

\* What a process leaves behind: the directory it analysed last, whether
\* analyse_module_imports "returned" or "failed" on it, and the plan returned.
Outcome(dir, status, plan) == [dir |-> dir, status |-> status, plan |-> plan]

\* Nothing to compare the next process with: no process yet, or the files or
\* the stores are no longer what the last process found (it wrote to them, or
\* an edit did).
NoRun == Outcome(PrimaryDir, "none", EmptyDict)

\* The process is over; the next command runs in a new one.
ProcessExit ==
    /\ pc \in {"exited", "failed"}
    /\ pc' = "idle"
    /\ history' = IF command = "fix" /\ pc = "exited" /\ exit_status = 1 THEN "fixed"
                  ELSE IF command = "fix" /\ pc = "failed" /\ error = "imports_not_replaced"
                  THEN "other"
                  ELSE history
    /\ previous' = IF cache_enabled # "off" THEN NoRun
                   ELSE IF command = "fix" /\ replacements # EmptyDict THEN NoRun
                   ELSE IF pc = "failed" THEN Outcome(Head(dirs), "failed", EmptyDict)
                   ELSE Outcome(Head(dirs), "returned", replacements)
    /\ exit_status' = -1
    /\ error' = ""
    /\ dirs' = << >>
    /\ command' = "none"
    /\ cache_enabled' = "off"
    /\ root' = PrimaryDir
    /\ locations' = << >>
    /\ todo' = << >>
    /\ yielded' = EmptyDict
    /\ files_count' = 0
    /\ Fresh
    /\ UNCHANGED <<fs, scan, config, store, clock, opened>>

-----------------------------------------------------------------------------
(* The environment between two commands *)

\* A file is written (created or modified) by an editor.
WriteFile(file, src) ==
    /\ pc = "idle"
    /\ clock < MaxTime
    /\ fs' = [fs EXCEPT ![file] = Content(src.imports, src.defs, clock + 1)]
    /\ clock' = clock + 1
    /\ history' = "edited"
    /\ previous' = NoRun
    /\ UNCHANGED <<scan, config, store, opened>>
    /\ UNCHANGED <<pc, all_interfaces>>
    /\ UNCHANGED plan_vars
    /\ UNCHANGED ai_vars

\* A file is deleted.
RemoveFile(file) ==
    /\ pc = "idle"
    /\ fs[file].present
    /\ fs' = [fs EXCEPT ![file] = Absent]
    /\ history' = "edited"
    /\ previous' = NoRun
    /\ UNCHANGED <<scan, config, store, clock, opened>>
    /\ UNCHANGED <<pc, all_interfaces>>
    /\ UNCHANGED plan_vars
    /\ UNCHANGED ai_vars

\* A stored entry is damaged, or was written by another version of the tool.
Corrupt(dir, key) ==
    /\ pc = "idle"
    /\ key \in DOMAIN store[dir]
    /\ store[dir][key].valid
    /\ store' = [store EXCEPT ![dir][key] = InvalidEntry]
    /\ previous' = NoRun
    /\ UNCHANGED <<fs, scan, config, clock, opened, history>>
    /\ UNCHANGED <<pc, all_interfaces>>
    /\ UNCHANGED plan_vars
    /\ UNCHANGED ai_vars

-----------------------------------------------------------------------------
(* The projects the model is run on: a package p with a sub-module p.s, two *)
(* plain modules z and m (and p.py, which collides with the package), and   *)
(* a directory given as additional package.                                  *)

FPI == File(PrimaryDir, <<"p", "__init__">>)
FPS == File(PrimaryDir, <<"p", "s">>)
FPP == File(PrimaryDir, <<"p">>)
FZ == File(PrimaryDir, <<"z">>)
FM == File(PrimaryDir, <<"m">>)
FEI == File(ExtraDir, <<"__init__">>)

Files == {FPI, FPS, FPP, FZ, FM, FEI}

ScanOrders == {<<FM, FPI, FPS, FPP, FZ, FEI>>, <<FEI, FZ, FPP, FPS, FPI, FM>>}

Src(imports, defs) == [imports |-> imports, defs |-> defs]

\* "from module import e as n"
Bind(n, module, e) == n :> NameImport(module, e, n)

\* The sources a file is given in the projects analysed.
Sources(file) ==
    CASE file = FPI ->
           {Src(EmptyDict, {"X"}),
            Src(EmptyDict, {"s"}),
            Src(Bind("X", <<"p", "s">>, "X"), {}),
            Src(Bind("X", <<"z">>, "X"), {}),
            Src(Bind("s", <<"p">>, "s"), {"X"}),
            Src(Bind("s", <<"z">>, "s"), {"X"})}
      [] file = FPS ->
           {Src(EmptyDict, {"X"}),
            Src(Bind("X", <<"z">>, "X"), {}),
            Src(Bind("X", <<"p">>, "X"), {})}
      [] file = FZ ->
           {Src(EmptyDict, {"X"}),
            Src(EmptyDict, {}),
            Src(Bind("X", <<"e">>, "X"), {}),
            Src(Bind("X", <<"p", "s">>, "X"), {})}
      [] file = FM ->
           {Src(Bind("X", <<"p">>, "X"), {}),
            Src(Bind("Y", <<"p">>, "X"), {}),
            Src(Bind("X", <<"z">>, "X"), {}),
            Src(Bind("X", <<"e">>, "X"), {}),
            Src(Bind("X", <<"p", "s">>, "X"), {}),
            Src(Bind("s", <<"p">>, "s"), {}),
            Src(Bind("X", <<"p", "t">>, "X"), {})}
      [] file = FEI ->
           {Src(EmptyDict, {"X"}),
            Src(Bind("X", <<"os">>, "X"), {}),
            Src(Bind("X", <<"z">>, "X"), {}),
            Src(Bind("X", <<"e", "t">>, "X"), {})}
      [] OTHER -> {Src(EmptyDict, {"X"})}

\* The contents a file can have on a disk, all written at time 1.
Contents(file, optional) ==
    {Content(src.imports, src.defs, 1) : src \in Sources(file)}
        \cup (IF optional THEN {Absent} ELSE {})

\* The disks: the package file, its sub-module and the additional package may
\* be missing, p.py is.
Disks ==
    {(FPI :> pi) @@ (FPS :> ps) @@ (FPP :> Absent) @@ (FZ :> z) @@ (FM :> m) @@ (FEI :> ei) :
        pi \in Contents(FPI, TRUE), ps \in Contents(FPS, TRUE), z \in Contents(FZ, FALSE),
        m \in Contents(FM, FALSE), ei \in Contents(FEI, TRUE)}

Configs == {<< >>, <<"e">>}

\* The variables of a process that has not started, pc, imp and the map aside.
Quiet ==
    /\ dirs = << >>
    /\ command = "none"
    /\ cache_enabled = "off"
    /\ root = PrimaryDir
    /\ locations = << >>
    /\ todo = << >>
    /\ yielded = EmptyDict
    /\ interfaces = EmptyDict
    /\ first_party_packages = {}
    /\ add_queue = << >>
    /\ atodo = << >>
    /\ replacements = EmptyDict
    /\ files_count = 0
    /\ original_imp = NoImport
    /\ m_path = << >>
    /\ m_name = ""
    /\ visited = {}
    /\ result = "pending"
    /\ repl = NoImport
    /\ error = ""
    /\ exit_status = -1

NoProcess ==
    /\ pc = "idle"
    /\ all_interfaces = EmptyDict
    /\ imp = NoImport
    /\ Quiet

EmptyStores == [d \in {PrimaryDir, ExtraDir} |-> EmptyDict]

\* The steps of a process.
Step ==
    \/ GmiOpen
    \/ GmiGet
    \/ GmiExtract
    \/ GmiClose
    \/ AddNext
    \/ AnalyseNext
    \/ AiEnter
    \/ AiLoop
    \/ AnalyseReturn
    \/ AnalyseDone
    \/ Report
    \/ FixFile
    \/ FixDone
    \/ ProcessExit

-----------------------------------------------------------------------------
(* SpecPlan: the commands on every project of the family, one after the    *)
(* other, nothing else touching the files.                                 *)

InitPlan ==
    /\ fs \in Disks
    /\ scan = <<FM, FPI, FPS, FPP, FZ, FEI>>
    /\ config \in Configs
    /\ fs[FEI].present <=> config # << >>
    /\ store = EmptyStores
    /\ clock = 1
    /\ opened = {}
    /\ history = "new"
    /\ previous = NoRun
    /\ NoProcess

NextPlan ==
    \/ \E cmd \in {"check", "fix"} : Run(cmd, "on", <<PrimaryDir>>)
    \/ Step

SpecPlan == InitPlan /\ [][NextPlan]_vars

-----------------------------------------------------------------------------
(* SpecResolve: analyse_import alone, on the interfaces of every project of *)
(* the family and every import of a small set.                              *)

location_at(locs, path) == CHOOSE l \in Range(locs) : l.path = path

\* The map get_modules_interfaces yields for a directory when nothing is cached.
interfaces_of(dir, root_module_path) ==
    LET locs == get_modules_locations(dir, root_module_path)
        built == [i \in DOMAIN locs |-> extracted_interface(locs[i], locs)]
    IN  [path \in Paths(locs) |-> built[CHOOSE i \in DOMAIN locs : locs[i].path = path]]

\* The combined map of lines 122-153.
combined_interfaces ==
    IF config = << >> THEN interfaces_of(PrimaryDir, << >>)
    ELSE Merge(interfaces_of(PrimaryDir, << >>), interfaces_of(ExtraDir, <<config[1]>>))

\* A package that defines a name of one of its sub-modules has no interface.
Shadowed(dir, root_module_path) ==
    LET locs == get_modules_locations(dir, root_module_path)
    IN  \E l \in Range(locs) : l.is_init /\ shadowed_attrs(l, locs) # {}

ImportsAnalysed ==
    {NameImport(module, export_name, import_name) :
        module \in {<<"p">>, <<"p", "s">>, <<"z">>, <<"m">>, <<"e">>, <<"p", "t">>},
        export_name \in {"X", "s"},
        import_name \in {"X", "Y"}}

\* lines 70-73: analyse_import is called on the map, with an import
Call(the_imp) ==
    /\ pc = "idle"
    /\ command = "none"
    /\ imp' = the_imp
    /\ pc' = "ai_enter"
    /\ UNCHANGED <<original_imp, m_path, m_name, visited, result, repl, all_interfaces>>
    /\ UNCHANGED env_vars
    /\ UNCHANGED plan_vars

InitResolve ==
    /\ fs \in Disks
    /\ scan = <<FM, FPI, FPS, FPP, FZ, FEI>>
    /\ config \in Configs
    /\ fs[FEI].present <=> config # << >>
    /\ ~Shadowed(PrimaryDir, << >>)
    /\ store = EmptyStores
    /\ clock = 1
    /\ opened = {}
    /\ history = "new"
    /\ previous = NoRun
    /\ pc = "idle"
    /\ all_interfaces = combined_interfaces
    /\ imp = NoImport
    /\ Quiet

NextResolve ==
    \/ \E the_imp \in ImportsAnalysed : Call(the_imp)
    \/ AiEnter
    \/ AiLoop

SpecResolve == InitResolve /\ [][NextResolve]_vars

\* analyse_import on the projects without additional package; once called, it
\* runs: nothing suspends it.
InitResolveFair == InitResolve /\ config = << >>

SpecResolveFair == InitResolveFair /\ [][NextResolve]_vars /\ WF_vars(AiEnter \/ AiLoop)

-----------------------------------------------------------------------------
(* Spec: a project that is edited between the commands run on it.           *)

Edits ==
    {<<FPI, Src(EmptyDict, {"X"})>>,
     <<FPI, Src(EmptyDict, {"s"})>>,
     <<FPI, Src(Bind("X", <<"p", "s">>, "X"), {})>>,
     <<FPS, Src(EmptyDict, {"X"})>>,
     <<FPP, Src(EmptyDict, {"X"})>>,
     <<FM, Src(Bind("X", <<"p">>, "X"), {})>>}

Init ==
    /\ fs = (FPI :> Content(Bind("X", <<"z">>, "X"), {}, 1)) @@ (FPS :> Absent)
            @@ (FPP :> Absent)
            @@ (FZ :> Content(EmptyDict, {"X"}, 1))
            @@ (FM :> Content(Bind("X", <<"p">>, "X"), {}, 1))
            @@ (FEI :> Content(EmptyDict, {"X"}, 1))
    /\ scan \in ScanOrders
    /\ config = << >>
    /\ store = EmptyStores
    /\ clock = 1
    /\ opened = {}
    /\ history = "new"
    /\ previous = NoRun
    /\ NoProcess

Next ==
    \/ \E cmd \in {"check", "fix"}, mode \in {"on", "off", "rebuild"} :
          Run(cmd, mode, <<PrimaryDir>>)
    \/ \E e \in Edits : WriteFile(e[1], e[2])
    \/ RemoveFile(FPS)
    \/ Corrupt(PrimaryDir, _key(<<"p">>))
    \/ Step

Spec == Init /\ [][Next]_vars

-----------------------------------------------------------------------------
(* SpecOff: commands run one after the other with the cache off, on one or  *)
(* two directories, the file system enumerating the files in one order or   *)
(* the other.  A process that can take a step takes it.                     *)

\* rglob enumerates the files in another order from now on.
Rescan(order) ==
    /\ pc = "idle"
    /\ scan # order
    /\ scan' = order
    /\ UNCHANGED <<fs, config, store, clock, opened, history, previous>>
    /\ UNCHANGED <<pc, all_interfaces>>
    /\ UNCHANGED plan_vars
    /\ UNCHANGED ai_vars

\* The directories given to a command.
Arguments == {<<PrimaryDir>>, <<ExtraDir, PrimaryDir>>}

\* The disks of SpecOff: z.py defines X, the second directory holds a package
\* that defines X, and p/__init__.py imports from p itself sub-modules only.
DisksOff ==
    {d \in Disks : /\ d[FZ] = Content(EmptyDict, {"X"}, 1)
                   /\ d[FEI] = Content(EmptyDict, {"X"}, 1)
                   /\ \A i \in Values(d[FPI].imports) :
                          i.module = <<"p">> => d[File(PrimaryDir, <<"p", i.export_name>>)].present}

InitOff ==
    /\ fs \in DisksOff
    /\ scan \in ScanOrders
    /\ config = << >>
    /\ store = EmptyStores
    /\ clock = 1
    /\ opened = {}
    /\ history = "new"
    /\ previous = NoRun
    /\ NoProcess

NextOff ==
    \/ \E cmd \in {"check", "fix"}, ds \in Arguments : Run(cmd, "off", ds)
    \/ \E order \in ScanOrders : Rescan(order)
    \/ Step

SpecOff == InitOff /\ [][NextOff]_vars /\ WF_vars(Step)

-----------------------------------------------------------------------------
(* Properties of analyse_import, under SpecResolve *)

Returned == pc = "ai_return"

\* The modules a chain of plain re-exports of name leads to from module: every
\* module of the chain is known and is no package, each imports name under
\* the same name from the next, and the last defines it without importing it.
RECURSIVE chain_origins(_, _, _, _)
chain_origins(ifs, module, name, fuel) ==
    IF module \notin DOMAIN ifs \/ ifs[module].location.is_init THEN {}
    ELSE IF name \notin DOMAIN ifs[module].imported_names
         THEN IF name \in ifs[module].exported_names THEN {module} ELSE {}
    ELSE IF fuel = 0 THEN {}
    ELSE LET next == ifs[module].imported_names[name]
         IN  IF next.export_name = name /\ next.import_name = name
             THEN chain_origins(ifs, next.module, name, fuel - 1)
             ELSE {}

\* the chains of at least one re-export that start in the module of imp
ChainOrigins ==
    IF imp.module \in DOMAIN all_interfaces
       /\ imp.export_name \in DOMAIN all_interfaces[imp.module].imported_names
    THEN chain_origins(all_interfaces, imp.module, imp.export_name,
                       Cardinality(DOMAIN all_interfaces))
    ELSE {}

\* C1: an import of X from the end of a chain of plain re-exports between
\* known modules that are no packages is replaced by the import of X from the
\* module that defines it, whatever the length of the chain.
C1_ChainCollapsing ==
    Returned =>
        \A origin \in ChainOrigins :
            /\ result = "repl"
            /\ repl.module = origin
            /\ repl.export_name = imp.export_name

\* a chain of two re-exports has been collapsed
C1_Witness ==
    /\ Returned
    /\ ChainOrigins # {}
    /\ Cardinality(visited) = 3
    /\ result = "repl"

\* big is small with one more segment
DirectChild(small, big) ==
    /\ Len(big) = Len(small) + 1
    /\ \A i \in 1..Len(small) : big[i] = small[i]

\* the module of imp is a package that binds the name imported to an import
\* from one of its direct sub-modules
PackageSurface ==
    /\ imp.module \in DOMAIN all_interfaces
    /\ all_interfaces[imp.module].location.is_init
    /\ imp.export_name \in DOMAIN all_interfaces[imp.module].imported_names
    /\ DirectChild(imp.module,
                   all_interfaces[imp.module].imported_names[imp.export_name].module)

\* C2: an import from a package of a name the package imports from one of its
\* direct sub-modules gets no replacement and no error.
C2_PackageReexport ==
    (Returned /\ PackageSurface) => result = "none"

\* the rule has applied although the sub-module re-exports the name itself
C2_Witness ==
    /\ Returned
    /\ PackageSurface
    /\ result = "none"
    /\ LET sub == all_interfaces[imp.module].imported_names[imp.export_name]
       IN  /\ sub.module \in DOMAIN all_interfaces
           /\ sub.export_name \in DOMAIN all_interfaces[sub.module].imported_names

\* the module of imp is known and does not import the name imported
NoHop ==
    /\ imp.module \in DOMAIN all_interfaces
    /\ imp.export_name \notin DOMAIN all_interfaces[imp.module].imported_names

\* C8: without a hop, the unresolved-import error is raised exactly when the
\* name is neither exported by the source module nor one of its sub-modules;
\* otherwise there is no replacement.
C8_Unresolvable ==
    (Returned /\ NoHop) =>
        IF imp.export_name \in all_interfaces[imp.module].exported_names
                                  \cup all_interfaces[imp.module].submodules
        THEN result = "none"
        ELSE result = "unresolved"

\* a sub-module imported from its package has been accepted
C8_Witness ==
    /\ Returned
    /\ NoHop
    /\ imp.export_name \in all_interfaces[imp.module].submodules
    /\ result = "none"

\* the walk has stopped on a re-export whose module is not known, the package
\* rule not applying to it
Boundary ==
    /\ imp.module \in DOMAIN all_interfaces
    /\ m_path \in DOMAIN all_interfaces
    /\ m_name \in DOMAIN all_interfaces[m_path].imported_names
    /\ all_interfaces[m_path].imported_names[m_name].module \notin DOMAIN all_interfaces
    /\ ~(/\ all_interfaces[m_path].location.is_init
         /\ DirectChild(imp.module, all_interfaces[m_path].imported_names[m_name].module))

\* C9: the unknown-module error is raised exactly when the module of the import
\* itself is not known; a module that is not known further down the chain ends
\* the walk, and the last import found is the replacement, under the local
\* name of the import analysed.
C9_UnknownModule ==
    Returned =>
        /\ result = "unknown_module" <=> imp.module \notin DOMAIN all_interfaces
        /\ Boundary =>
              /\ result = "repl"
              /\ repl = [module |-> all_interfaces[m_path].imported_names[m_name].module,
                         export_name |-> all_interfaces[m_path].imported_names[m_name].export_name,
                         import_name |-> imp.import_name]

\* a chain has ended in a module that is not known, after a hop between known ones
C9_Witness ==
    /\ Returned
    /\ Boundary
    /\ m_path # imp.module
    /\ result = "repl"
    /\ repl.import_name # repl.export_name

-----------------------------------------------------------------------------
(* Properties of the plan, under SpecPlan *)

\* analyse_module_imports has returned its plan
PlanReturned == pc = "report"

\* the (location, import) pairs that have an entry in the plan
PlanEntries ==
    {<<loc, old>> \in UNION {{loc} \X DOMAIN replacements[loc] : loc \in DOMAIN replacements} : TRUE}

\* (module, name) is a re-export in the combined map
IsReexport(module, name) ==
    /\ module \in DOMAIN all_interfaces
    /\ name \in DOMAIN all_interfaces[module].imported_names

\* C3: every entry of the plan is for an import of a primary module, keeps the
\* local name of that import and points to a (module, name) pair that is not
\* a re-export of the combined interface map.
C3_PlanTargets ==
    PlanReturned =>
        \A e \in PlanEntries :
            LET new == replacements[e[1]][e[2]]
            IN  /\ e[1].path \in DOMAIN interfaces
                /\ e[2] \in Values(interfaces[e[1].path].imported_names)
                /\ new.import_name = e[2].import_name
                /\ ~IsReexport(new.module, new.export_name)

\* the plan replaces an import under an alias, through more than one re-export
C3_Witness ==
    /\ PlanReturned
    /\ \E e \in PlanEntries :
          LET new == replacements[e[1]][e[2]]
              first == all_interfaces[e[2].module].imported_names[e[2].export_name]
          IN  /\ e[2].import_name # e[2].export_name
              /\ first.module # new.module

\* the locations of the modules of the primary root
PrimaryLocations == Range(get_modules_locations(PrimaryDir, << >>))

\* the module paths of the additional packages
AdditionalPaths ==
    IF config = << >> THEN {} ELSE Paths(get_modules_locations(ExtraDir, <<config[1]>>))

\* C10: the keys of the plan are locations of the primary root and the count is
\* the number of its modules, while the map analyse_import walks holds the
\* modules of the additional packages too.
C10_PrimaryOnly ==
    PlanReturned =>
        /\ DOMAIN replacements \subseteq PrimaryLocations
        /\ files_count = Cardinality(PrimaryLocations)
        /\ AdditionalPaths \subseteq DOMAIN all_interfaces
        /\ AdditionalPaths \cap DOMAIN interfaces = {}

\* an import of a primary module is replaced by an import from an additional
\* package, found by walking through a module of that package
C10_Witness ==
    /\ PlanReturned
    /\ \E e \in PlanEntries :
          LET new == replacements[e[1]][e[2]]
          IN  /\ new.module \in AdditionalPaths
              /\ e[2].module \notin AdditionalPaths
              /\ e[1] \in PrimaryLocations

\* C4: after a fix command has applied its plan, the plan of the next command on
\* the same files is empty and the command does not fail.
C4_Idempotent ==
    history = "fixed" =>
        /\ pc # "failed"
        /\ PlanReturned => replacements = EmptyDict

-----------------------------------------------------------------------------
(* Properties of the cache, under Spec *)

\* get_modules_interfaces is about to ask the cache, in mode "on", for a
\* location that has a structurally valid entry
ValidEntryAsked ==
    /\ pc = "gmi_iter"
    /\ todo # << >>
    /\ cache_enabled = "on"
    /\ _key(Head(todo).path) \in DOMAIN store[root]
    /\ store[root][_key(Head(todo).path)].valid

\* C5: in mode "on", get_interface on a valid entry of timestamp T0 for a file
\* of modification time T1 returns nothing when T1 > T0 and the stored
\* imported_names, exported_names and submodules when T1 <= T0; it leaves the
\* entry as it is in both cases.
C5_CacheGet ==
    [][ValidEntryAsked =>
          LET loc == Head(todo)
              entry == store[root][_key(loc.path)]
          IN  /\ _key(loc.path) \in DOMAIN store'[root]
              /\ store'[root][_key(loc.path)] = entry
              /\ IF fs[loc.file].mtime > entry.timestamp
                 THEN /\ pc' = "gmi_miss"
                      /\ yielded' = yielded
                 ELSE /\ loc.path \in DOMAIN yielded'
                      /\ yielded'[loc.path].location = loc
                      /\ yielded'[loc.path].imported_names = entry.imported_names
                      /\ yielded'[loc.path].exported_names = entry.exported_names
                      /\ yielded'[loc.path].submodules = entry.submodules
                      /\ pc' = "gmi_iter"]_vars

\* the cache has returned nothing for an entry older than its file, and the
\* entry is still there
C5_Witness ==
    /\ pc = "gmi_miss"
    /\ cache_enabled = "on"
    /\ _key(Head(todo).path) \in DOMAIN store[root]
    /\ store[root][_key(Head(todo).path)].valid
    /\ store[root][_key(Head(todo).path)].timestamp < fs[Head(todo).file].mtime

\* get_modules_interfaces is iterating
Yielding == pc \in {"gmi_iter", "gmi_miss"}

\* C6: every interface yielded in mode "on" is the one mode "off" yields for
\* the same location on the same files.
C6_CacheTransparent ==
    (Yielding /\ cache_enabled = "on") =>
        \A path \in DOMAIN yielded :
            yielded[path] = extracted_interface(location_at(locations, path), locations)

\* C7: no interface is yielded for a package whose __init__ file defines the
\* name of one of its direct sub-modules of the current scan, and no interface
\* yielded has exported_names that overlap those sub-modules.
C7_ShadowDetection ==
    Yielding =>
        \A path \in DOMAIN yielded :
            LET interface == yielded[path]
                current == submodules_of(interface.location, locations)
            IN  interface.location.is_init =>
                    /\ current \cap extract_exported_names(interface.location.file) = {}
                    /\ current \cap interface.exported_names = {}

-----------------------------------------------------------------------------
(* Coverage of the planner, under SpecPlan *)

\* the (location, import) pairs the loops of lines 157-163 have handed to
\* analyse_import once the plan is returned
Analysed ==
    {e \in Range(imports_to_analyse(interfaces, all_interfaces)) :
        ~skipped(e[2], first_party_packages)}

\* the import bindings in the source of the module at loc
SourceImports(loc) == Values(extract_imported_names(loc.file))

\* C11: analyse_import is invoked on every import binding in the source of a
\* primary module whose module path is not empty and starts with a first-party
\* package, those of a package __init__ that carry the name of one of its
\* sub-modules included.
C11_EveryImportAnalysed ==
    PlanReturned =>
        \A loc \in PrimaryLocations :
            \A i \in SourceImports(loc) :
                ~skipped(i, first_party_packages) => <<loc, i>> \in Analysed

-----------------------------------------------------------------------------
(* Order of enumeration, under SpecOff *)

\* analyse_module_imports is at work on directory dir
Analysing(dir) ==
    /\ command # "none"
    /\ pc \in {"gmi_open", "gmi_iter", "gmi_miss", "additional", "analyse",
               "ai_enter", "ai_loop", "ai_return"}
    /\ Head(dirs) = dir

\* the last process analysed the directory this one is at, on the same files
\* and the same cache content
SameSnapshot == previous.status # "none" /\ command # "none" /\ Head(dirs) = previous.dir

\* C12: on the same files and cache content, analyse_module_imports ends the
\* way it ended under any other order of enumeration: it fails if it failed,
\* and it returns the same plan if it returned one.
C12_OrderIndependence ==
    /\ [](SameSnapshot /\ PlanReturned =>
              previous.status = "returned" /\ replacements = previous.plan)
    /\ [](SameSnapshot /\ pc = "failed" /\ error # "imports_not_replaced" =>
              previous.status = "failed")
    /\ [](SameSnapshot /\ Analysing(previous.dir) => <>(pc \in {"report", "failed"}))

-----------------------------------------------------------------------------
(* The store of a run, under Spec *)

\* C13: in mode "rebuild" the store is empty once opened, whatever it held;
\* no get_interface of the run returns an interface; and every interface the
\* run yields is stored so that get_interface, in mode "on" and as long as the
\* file is not modified, returns it.
C13_Rebuild ==
    /\ [][(pc = "gmi_open" /\ cache_enabled = "rebuild") =>
              (pc' = "gmi_iter" /\ store'[root] = EmptyDict)]_vars
    /\ [][(pc = "gmi_iter" /\ cache_enabled = "rebuild" /\ todo # << >>) =>
              (pc' = "gmi_miss" /\ yielded' = yielded)]_vars
    /\ []((cache_enabled = "rebuild" /\ pc \in {"gmi_iter", "gmi_miss", "additional"}) =>
              \A path \in DOMAIN yielded :
                  /\ dbm_lookup(store[root], yielded[path].location) = "valid"
                  /\ get_interface(store[root], yielded[path].location) = yielded[path])

\* a run in mode "rebuild" opens a store that holds, for the first location it
\* will ask for, an entry that mode "on" would serve
C13_Witness ==
    /\ pc = "gmi_open"
    /\ cache_enabled = "rebuild"
    /\ todo # << >>
    /\ dbm_lookup(store[root], Head(todo)) = "valid"

-----------------------------------------------------------------------------
(* The directories of a command, under SpecOff *)

\* C15: when fix exits it has been through every directory it was given, and
\* it exits with status 0 only if none of them had replacements (the plan the
\* last process returned for one of them, on the same files, was empty).
C15_FixEveryDirectory ==
    (command = "fix" /\ pc = "exited") =>
        /\ Tail(dirs) = << >>
        /\ (exit_status = 0 /\ previous.status = "returned" /\ previous.dir \in Range(dirs)) =>
               previous.plan = EmptyDict

-----------------------------------------------------------------------------
(* Termination of analyse_import, under SpecResolveFair *)

\* the loop is at a (_module, _name) pair it has already looked up
Revisiting == pc = "ai_loop" /\ <<m_path, m_name>> \in visited

\* C16: analyse_import, once called, either comes back to a pair it has
\* already looked up or returns (a replacement, nothing, or one of its two
\* errors); once it has come back to a pair it stays in the loop for ever,
\* coming back to pairs it has looked up, and nothing is returned or raised.
C16_Termination ==
    /\ (pc = "ai_enter") ~> (Returned \/ Revisiting)
    /\ [](Returned => result \in {"repl", "none", "unknown_module", "unresolved"})
    /\ [][Revisiting => (Revisiting' /\ result' = result /\ repl' = repl)]_vars

\* the walk is back at a pair it has looked up, after a cycle through more
\* than one module
C16_Witness ==
    /\ Revisiting
    /\ Cardinality({v[1] : v \in visited}) > 1

-----------------------------------------------------------------------------
(* The changes of the plan, under SpecPlan *)

\* new names another module or another name of the module than old
RealChange(old, new) ==
    /\ new # old
    /\ new.module # old.module \/ new.export_name # old.export_name

\* C17: a replacement returned by analyse_import differs from the import it
\* replaces in module or in export_name, every entry of the plan is such a
\* replacement, and every location that is a key of the plan has an entry.
C17_RealChanges ==
    /\ (pc = "ai_return" /\ result = "repl") => RealChange(imp, repl)
    /\ \A loc \in DOMAIN replacements :
          /\ replacements[loc] # EmptyDict
          /\ \A old \in DOMAIN replacements[loc] : RealChange(old, replacements[loc][old])

\* the plan returned has a key for a module and none for another module whose
\* first-party import was analysed and left as it is
C17_Witness ==
    /\ PlanReturned
    /\ replacements # EmptyDict
    /\ \E e \in Analysed : e[1] \notin DOMAIN replacements

====
